---- MODULE Spec2Model ----
(***************************************************************************)
(* Model of the video recommendation pipeline of skillpick                 *)
(* (core/recommendation.py), of the cache table it reads and writes        *)
(* (core/models.py, TopicRecommendationCache), and of the views that store *)
(* the daily recommendation (core/views.py, DailyRecommendation).          *)
(*                                                                         *)
(* Text is modelled as a sequence of characters, one string per character; *)
(* a non-ASCII character is written by its code point ("u57FA").  Titles,  *)
(* rationales and url bodies that are only copied, never inspected, are    *)
(* plain strings.  Python's None in a text field is the string PyNone, an  *)
(* optional value (an object or None) is a sequence of length 0 or 1.      *)
(***************************************************************************)
EXTENDS Integers, Sequences, FiniteSets, TLC

\* --------------------------------------------------------------- bounds
MaxCache == 2
MaxClock == 31
NumProcs == 2
MaxElapse == 1

Procs == 1..NumProcs

\* --------------------------------------------------------------- constants
CacheValidityDays == 30
FeedbackPrefixLen == 10
BilibiliLimit == 5
ZhihuLimit == 3
ZhihuThreshold == 5
SohuLimit == 3
So360Limit == 3
DdgLimit == 3
\* `<=` in place of `<` in the Sohu guard
SohuThresholdOffByOne == ZhihuThreshold + 1
SohuThreshold == 5
So360Threshold == 5
DdgThreshold == 3

PyNone == "<None>"
None == <<>>
Some(x) == <<x>>

\* --------------------------------------------------------------- text
UpperChars == <<"A","B","C","D","E","F","G","H","I","J","K","L","M",
                "N","O","P","Q","R","S","T","U","V","W","X","Y","Z">>
LowerChars == <<"a","b","c","d","e","f","g","h","i","j","k","l","m",
                "n","o","p","q","r","s","t","u","v","w","x","y","z">>

LowerChar(c) ==
    IF \E i \in 1..Len(UpperChars) : UpperChars[i] = c
    THEN LowerChars[CHOOSE i \in 1..Len(UpperChars) : UpperChars[i] = c]
    ELSE c

\* str.lower()
Lower(s) == [i \in 1..Len(s) |-> LowerChar(s[i])]

\* key in s
Contains(key, s) ==
    \E i \in 0..(Len(s) - Len(key)) : SubSeq(s, i + 1, i + Len(key)) = key

\* s[:n]
Prefix(s, n) == SubSeq(s, 1, IF Len(s) < n THEN Len(s) ELSE n)

\* seq[:n] for a list
Take(seq, n) == SubSeq(seq, 1, IF Len(seq) < n THEN Len(seq) ELSE n)

Url(scheme, rest) == [scheme |-> scheme, rest |-> rest]

\* A well-formed absolute URI: a scheme followed by a non-empty remainder.
IsAbsoluteUrl(u) == u.scheme \in {"http", "https"} /\ u.rest # ""

\* --------------------------------------------------------------- Topic
LevelDisplayOf(level) ==
    CASE level = "beginner"     -> <<"u5165", "u95E8">>
      [] level = "intermediate" -> <<"u8FDB", "u9636">>
      [] level = "advanced"     -> <<"u7CBE", "u901A">>

\* "Java与Python 基础"
TitleJavaPython == <<"J","a","v","a","u4E0E","P","y","t","h","o","n"," ","u57FA","u7840">>
\* "Rust"
TitleRust == <<"R","u","s","t">>

\* A LearningLog.feedback of 11 characters
FeedbackLong == <<"t","o","o"," ","f","a","s","t"," ","4","m">>

\* A request is a Topic together with its most recent LearningLog (or None)
Requests ==
    { [user |-> "bob", title |-> TitleJavaPython, current_level |-> "beginner",
       last_log |-> Some([feedback |-> FeedbackLong])],
      [user |-> "alice", title |-> TitleRust, current_level |-> "advanced",
       last_log |-> Some([feedback |-> <<>>])],
      [user |-> "bob", title |-> TitleRust, current_level |-> "advanced",
       last_log |-> None] }

\* --------------------------------------------------------------- catalog
HARDCODED_VIDEOS ==
    << [key |-> <<"p","y","t","h","o","n">>,
        title |-> "Python tutorial - Liao Xuefeng",
        url |-> Url("https", "www.bilibili.com/video/BV1wD4y1o7AS")],
       [key |-> <<"j","a","v","a">>,
        title |-> "Java from zero - Han Shunping",
        url |-> Url("https", "www.bilibili.com/video/BV1fh411y7R8")],
       [key |-> <<"u82F1","u8BED">>,
        title |-> "Spoken English daily",
        url |-> Url("https", "www.bilibili.com/video/BV154411u7Uf")],
       [key |-> <<"u5065","u8EAB">>,
        title |-> "Pamela 10 minute full body",
        url |-> Url("https", "www.bilibili.com/video/BV1pK411p7d6")],
       [key |-> <<"u8DB3","u7403">>,
        title |-> "Football basics",
        url |-> Url("https", "www.bilibili.com/video/BV1Cx411q7t5")],
       [key |-> <<"d","e","f","a","u","l","t">>,
        title |-> "Bilibili popular tutorials",
        url |-> Url("https", "www.bilibili.com/v/technology/computer/")] >>

\* --------------------------------------------------------------- candidates
\* A candidate dict.  The description, duration, play and author entries are
\* set by every adapter and only copied into the oracle prompt; they are left
\* out of the record.
Cand(title, url, provider) == [title |-> title, url |-> url, provider |-> provider]

RECURSIVE JoinWithout(_, _)
\* "".join of the pieces of a text that are not in the set of markup tags:
\* title.replace(tag, '') for each tag
JoinWithout(pieces, tags) ==
    IF pieces = <<>> THEN ""
    ELSE (IF Head(pieces) \in tags THEN "" ELSE Head(pieces))
         \o JoinWithout(Tail(pieces), tags)

BiliTags == {"<em class=\"keyword\">", "</em>"}
ZhihuTags == {"<em>", "</em>"}

\* ---- Bilibili -----------------------------------------------------------
RECURSIVE BiliApiLoop(_, _)
\* The loop over data['data']['result'][:limit]; an item whose description is
\* null makes the slice raise, which leaves the candidates collected so far.
BiliApiLoop(videos, acc) ==
    IF videos = <<>> THEN [cands |-> acc, raised |-> FALSE]
    ELSE LET v == Head(videos) IN
         IF v.bvid = "" THEN BiliApiLoop(Tail(videos), acc)
         ELSE IF v.descNull THEN [cands |-> acc, raised |-> TRUE]
         ELSE BiliApiLoop(Tail(videos),
                 Append(acc, Cand(JoinWithout(v.title, BiliTags),
                                  Url("https", "www.bilibili.com/video/" \o v.bvid),
                                  "Bilibili")))

RECURSIVE BiliWebLoop(_, _, _, _)
\* The loop over the regex matches of the search page
BiliWebLoop(matches, seen, acc, limit) ==
    IF matches = <<>> THEN acc
    ELSE LET bvid == Head(matches) IN
         IF bvid \in seen THEN BiliWebLoop(Tail(matches), seen, acc, limit)
         ELSE LET acc2 == Append(acc, Cand("Bilibili Video " \o bvid \o " (Parsed)",
                                           Url("https", "www.bilibili.com/video/" \o bvid),
                                           "Bilibili (Web)"))
              IN IF Len(acc2) >= limit THEN acc2
                 ELSE BiliWebLoop(Tail(matches), seen \cup {bvid}, acc2, limit)

BiliWeb(web, acc, limit) ==
    IF web.kind = "ok" THEN BiliWebLoop(web.matches, {}, acc, limit) ELSE acc

search_bilibili_candidates(resp, limit) ==
    LET api == resp.api
        web == resp.web
    IN IF api.kind = "ok" /\ api.code = 0
       THEN LET r == BiliApiLoop(Take(api.videos, limit), <<>>)
            IN IF r.raised THEN BiliWeb(web, r.cands, limit) ELSE r.cands
       ELSE BiliWeb(web, <<>>, limit)

\* ---- Zhihu --------------------------------------------------------------
ZhihuTitle(item) ==
    CASE item.type = "zvideo" -> JoinWithout(item.title, {})
      [] item.type = "search_result" /\ item.hasTitle -> JoinWithout(item.title, ZhihuTags)
      [] OTHER -> ""

\* "" stands for the empty url of an item that sets none
ZhihuUrl(item) ==
    CASE item.type = "zvideo" ->
            Some(Url("https", "www.zhihu.com/zvideo/" \o item.id))
      [] item.type = "search_result" /\ item.hasTitle /\ item.id # PyNone ->
            Some(Url("https", "www.zhihu.com/question/" \o item.question
                              \o "/answer/" \o item.id))
      [] OTHER -> None

RECURSIVE ZhihuLoop(_, _, _)
ZhihuLoop(items, acc, limit) ==
    IF items = <<>> THEN acc
    ELSE LET item == Head(items) IN
         IF item.raises THEN acc
         ELSE IF ZhihuTitle(item) # "" /\ ZhihuUrl(item) # None
         THEN LET acc2 == Append(acc, Cand(ZhihuTitle(item), ZhihuUrl(item)[1], "Zhihu"))
              IN IF Len(acc2) >= limit THEN acc2
                 ELSE ZhihuLoop(Tail(items), acc2, limit)
         ELSE ZhihuLoop(Tail(items), acc, limit)

search_zhihu_candidates(resp, limit) ==
    IF resp.kind = "ok" THEN ZhihuLoop(resp.items, <<>>, limit) ELSE <<>>

\* ---- Sohu ---------------------------------------------------------------
RECURSIVE SohuLoop(_, _, _)
SohuLoop(matches, acc, limit) ==
    IF matches = <<>> THEN acc
    ELSE LET m == Head(matches)
             acc2 == Append(acc, Cand(m.title, Url("https", m.path), "Sohu"))
         IN IF Len(acc2) >= limit THEN acc2
            ELSE SohuLoop(Tail(matches), acc2, limit)

search_sohu_candidates(resp, limit) ==
    IF resp.kind = "ok" THEN SohuLoop(resp.matches, <<>>, limit) ELSE <<>>

\* ---- 360 ----------------------------------------------------------------
RECURSIVE So360Loop(_, _, _)
\* link.scheme is "" for a protocol-relative link ("//v.qq.com/...")
So360Loop(links, acc, limit) ==
    IF links = <<>> THEN acc
    ELSE LET l == Head(links)
             acc2 == IF l.site \in {"video.so.com/view", "v.qq.com", "iqiyi.com"}
                     THEN Append(acc, Cand(l.title,
                                           IF l.scheme \in {"http", "https"}
                                           THEN Url(l.scheme, l.rest)
                                           ELSE Url("https", l.rest),
                                           "360 Video"))
                     ELSE acc
         IN IF Len(acc2) >= limit THEN acc2
            ELSE So360Loop(Tail(links), acc2, limit)

search_360_candidates(resp, limit) ==
    IF resp.kind = "ok" THEN So360Loop(resp.links, <<>>, limit) ELSE <<>>

\* ---- DuckDuckGo ---------------------------------------------------------
RECURSIVE DdgLoop(_, _)
\* r.get('title', 'No Title'), r.get('content', '#'): PyNone marks a missing key
DdgLoop(results, acc) ==
    IF results = <<>> THEN acc
    ELSE LET r == Head(results) IN
         DdgLoop(Tail(results),
                 Append(acc, Cand(IF r.title = PyNone THEN "No Title" ELSE r.title,
                                  IF r.content = None THEN Url("", "#") ELSE r.content[1],
                                  "DuckDuckGo")))

search_candidates_from_ddg(resp, limit) ==
    IF resp.kind = "ok" THEN DdgLoop(Take(resp.results, limit), <<>>) ELSE <<>>

\* --------------------------------------------------------------- provider responses
BiliVideo(title, bvid) == [title |-> title, bvid |-> bvid, descNull |-> FALSE]

\* Bilibili: both requests fail
BiliDown == [api |-> [kind |-> "exception"], web |-> [kind |-> "exception"]]
\* Bilibili: the API returns one video that has a bvid and no title
BiliNoTitle ==
    [api |-> [kind |-> "ok", code |-> 0, videos |-> << BiliVideo(<<>>, "BV1a") >>],
     web |-> [kind |-> "exception"]]
\* Bilibili: the API returns six videos
BiliSix ==
    [api |-> [kind |-> "ok", code |-> 0,
              videos |-> << BiliVideo(<<"<em class=\"keyword\">", "Py", "</em>", " 1">>, "BV11"),
                            BiliVideo(<<"Py 2">>, "BV12"),
                            BiliVideo(<<"Py 3">>, "BV13"),
                            BiliVideo(<<"Py 4">>, "BV14"),
                            BiliVideo(<<"Py 5">>, "BV15"),
                            BiliVideo(<<"Py 6">>, "BV16") >>],
     web |-> [kind |-> "exception"]]
\* Bilibili: the API returns a good video and then one whose description is
\* null, on which the loop raises; the search page cannot be fetched
BiliPartial ==
    [api |-> [kind |-> "ok", code |-> 0,
              videos |-> << BiliVideo(<<"Py 1">>, "BV21"),
                            [title |-> <<"Py 2">>, bvid |-> "BV22", descNull |-> TRUE] >>],
     web |-> [kind |-> "exception"]]
ZhihuItem(type, hasTitle, title, id) ==
    [type |-> type, hasTitle |-> hasTitle, title |-> title, id |-> id,
     question |-> "77", raises |-> FALSE]

ZhihuDown == [kind |-> "exception"]
\* Zhihu: six items, of which the second and the fourth are unusable
ZhihuSix ==
    [kind |-> "ok",
     items |-> << ZhihuItem("zvideo", TRUE, <<"Zhihu video">>, "101"),
                  ZhihuItem("search_result", FALSE, <<>>, "102"),
                  ZhihuItem("search_result", TRUE, <<"<em>", "Answer", "</em>", " A">>, "103"),
                  ZhihuItem("search_result", TRUE, <<"Answer B">>, PyNone),
                  ZhihuItem("zvideo", TRUE, <<"Zhihu video 2">>, "105"),
                  ZhihuItem("zvideo", TRUE, <<"Zhihu video 3">>, "106") >>]

SohuDown == [kind |-> "status", status |-> 500]
SohuOne ==
    [kind |-> "ok", matches |-> << [title |-> "Sohu clip", path |-> "tv.sohu.com/v/abc.html"] >>]

So360Down == [kind |-> "exception"]
\* 360: an unrelated link and a protocol-relative link to a video site
So360Two ==
    [kind |-> "ok",
     links |-> << [site |-> "other", scheme |-> "https", rest |-> "example.com/x", title |-> "Ad"],
                  [site |-> "v.qq.com", scheme |-> "", rest |-> "v.qq.com/x/1", title |-> "QQ clip"] >>]

DdgDown == [kind |-> "exception"]
\* DuckDuckGo: a result that carries neither a title nor a content link
DdgBare == [kind |-> "ok", results |-> << [title |-> PyNone, content |-> None] >>]
DdgOne ==
    [kind |-> "ok", results |-> << [title |-> "DDG clip",
                                    content |-> Some(Url("https", "youtu.be/1"))] >>]

Net(bili, zhihu, sohu, so360, ddg) ==
    [bili |-> bili, zhihu |-> zhihu, sohu |-> sohu, so360 |-> so360, ddg |-> ddg]

\* What the five providers would answer during one invocation
Networks ==
    { Net(BiliDown, ZhihuDown, SohuDown, So360Down, DdgDown),
      Net(BiliSix, ZhihuSix, SohuOne, So360Two, DdgOne),
      Net(BiliNoTitle, ZhihuDown, SohuDown, So360Down, DdgBare),
      Net(BiliDown, ZhihuSix, SohuOne, So360Two, DdgBare),
      Net(BiliDown, ZhihuSix, SohuDown, So360Down, DdgOne),
      Net(BiliPartial, ZhihuDown, SohuDown, So360Down, DdgBare) }

NoNet == Net(BiliDown, ZhihuDown, SohuDown, So360Down, DdgDown)

\* --------------------------------------------------------------- oracle
\* A JSON value: t is its JSON type, v its value as Python compares it
\* (json.loads gives True for true, and True == 1).
JInt(n) == [t |-> "int", v |-> n]
JTrue == [t |-> "bool", v |-> 1]
JStr == [t |-> "str", v |-> 0]
JMissing == [t |-> "missing", v |-> 0]

OracleBody(id, reason) == [kind |-> "ok", selected_id |-> id, reason |-> reason]

\* reason: a text, PyNone for JSON null, ReasonMissing when the key is absent
ReasonGiven == "fits the learner"
ReasonMissing == "<missing>"

SelectResponses ==
    { [kind |-> "exception"],
      [kind |-> "status", status |-> 500],
      [kind |-> "malformed"],
      OracleBody(JInt(0), ReasonGiven),
      OracleBody(JInt(1), ReasonMissing),
      OracleBody(JInt(0), PyNone),
      OracleBody(JInt(0 - 1), ReasonGiven),
      OracleBody(JInt(99), ReasonGiven),
      OracleBody(JTrue, ReasonMissing),
      OracleBody(JStr, ReasonGiven),
      OracleBody(JMissing, ReasonGiven) }

BlindResponses ==
    { [kind |-> "exception"],
      [kind |-> "status", status |-> 500],
      [kind |-> "malformed"],
      [kind |-> "ok", search_query |-> "rust basics", advice |-> "start small"],
      [kind |-> "ok", search_query |-> PyNone, advice |-> PyNone] }

\* isinstance(idx, int): bool is a subclass of int
IsInstanceInt(j) == j.t \in {"int", "bool"}

DefaultReason == "AI smart pick"
RuleBasedReason == "ranked high across the web"

\* call_llm_to_select without the `if not api_key: return None` of line 280
call_llm_to_select_unguarded(api_key, candidates, resp) ==
    IF resp.kind = "ok"
       /\ resp.selected_id.t \notin {"null", "missing"}
       /\ IsInstanceInt(resp.selected_id)
       /\ 0 <= resp.selected_id.v /\ resp.selected_id.v < Len(candidates)
    THEN [requested |-> TRUE,
          selection |-> Some([cand |-> candidates[resp.selected_id.v + 1],
                              reason |-> IF resp.reason = ReasonMissing
                                         THEN DefaultReason ELSE resp.reason]),
          raised |-> FALSE]
    ELSE [requested |-> TRUE, selection |-> None, raised |-> FALSE]

\* call_llm_to_select: requested tells whether an HTTP request was issued,
\* selection is the chosen candidate with its reason, or None
call_llm_to_select(api_key, candidates, resp) ==
    IF ~api_key THEN [requested |-> FALSE, selection |-> None, raised |-> FALSE]
    ELSE IF resp.kind = "ok"
            /\ resp.selected_id.t \notin {"null", "missing"}
            /\ IsInstanceInt(resp.selected_id)
            /\ 0 <= resp.selected_id.v /\ resp.selected_id.v < Len(candidates)
         THEN [requested |-> TRUE,
               selection |-> Some([cand |-> candidates[resp.selected_id.v + 1],
                                   reason |-> IF resp.reason = ReasonMissing
                                              THEN DefaultReason ELSE resp.reason]),
               raised |-> FALSE]
         ELSE [requested |-> TRUE, selection |-> None, raised |-> FALSE]

Rec(title, url, reason) == [title |-> title, url |-> url, reason |-> reason]

\* call_llm_for_blind_suggestion
call_llm_for_blind_suggestion(api_key, resp) ==
    IF ~api_key THEN [requested |-> FALSE, result |-> None]
    ELSE IF resp.kind = "ok"
         THEN [requested |-> TRUE,
               result |-> Some(Rec("Suggested search: "
                                      \o (IF resp.search_query = PyNone THEN "None"
                                          ELSE resp.search_query),
                                   Url("https", "search.bilibili.com/all?keyword="
                                      \o (IF resp.search_query = PyNone THEN "None"
                                          ELSE resp.search_query)),
                                   "No direct link. AI advice: "
                                      \o (IF resp.advice = PyNone THEN "None"
                                          ELSE resp.advice)))]
         ELSE [requested |-> TRUE, result |-> None]

\* --------------------------------------------------------------- cache table
Entry(kw, level, sel, at) ==
    [topic_keyword |-> kw, level |-> level, video_title |-> sel.cand.title,
     video_url |-> sel.cand.url, reason |-> sel.reason, created_at |-> at]

\* The keywords with the whole feedback in place of feedback[:10]
KeywordsOfWholeFeedback(r) ==
    r.title \o <<" ">> \o LevelDisplayOf(r.current_level) \o <<" ", "u6559", "u7A0B">>
    \o (IF r.last_log # None /\ r.last_log[1].feedback # <<>>
        THEN <<" ">> \o r.last_log[1].feedback
        ELSE <<>>)

\* keywords of a request (lines 366-369)
KeywordsOf(r) ==
    r.title \o <<" ">> \o LevelDisplayOf(r.current_level) \o <<" ", "u6559", "u7A0B">>
    \o (IF r.last_log # None /\ r.last_log[1].feedback # <<>>
        THEN <<" ">> \o Prefix(r.last_log[1].feedback, FeedbackPrefixLen)
        ELSE <<>>)

\* The filter without its created_at__gte condition
CacheMatchesNoExpiry(c, kw, level, t) ==
    { i \in 1..Len(c) : c[i].topic_keyword = kw /\ c[i].level = level }

\* The rows the filter of lines 372-376 keeps
CacheMatches(c, kw, level, t) ==
    { i \in 1..Len(c) : /\ c[i].topic_keyword = kw
                        /\ c[i].level = level
                        /\ c[i].created_at >= t - CacheValidityDays }

\* order_by('created_at').first(): ascending in place of descending
CacheFirstOldest(c, kw, level, t) ==
    LET m == CacheMatches(c, kw, level, t)
    IN { i \in m : \A j \in m : c[j].created_at >= c[i].created_at }

\* order_by('-created_at').first(): a row of the latest creation time; the
\* database is free to pick any of several rows of the same creation time
CacheFirst(c, kw, level, t) ==
    LET m == CacheMatches(c, kw, level, t)
    IN { i \in m : \A j \in m : c[j].created_at <= c[i].created_at }

\* update_or_create on (topic_keyword, level) in place of create
CacheUpsert(c, entry, dbOk) ==
    IF dbOk /\ entry.reason # PyNone
    THEN [ok |-> TRUE,
          cache |-> IF \E i \in 1..Len(c) : c[i].topic_keyword = entry.topic_keyword
                                            /\ c[i].level = entry.level
                    THEN [i \in 1..Len(c) |->
                            IF c[i].topic_keyword = entry.topic_keyword
                               /\ c[i].level = entry.level
                            THEN entry ELSE c[i]]
                    ELSE Append(c, entry)]
    ELSE [ok |-> FALSE, cache |-> c]

\* TopicRecommendationCache.objects.create: reason is a non-null column, and
\* the database itself may fail (dbOk)
CacheCreate(c, entry, dbOk) ==
    IF dbOk /\ entry.reason # PyNone
    THEN [ok |-> TRUE, cache |-> Append(c, entry)]
    ELSE [ok |-> FALSE, cache |-> c]

\* create(...) outside any try
TryCacheCreateNoExcept(c, entry, dbOk) ==
    LET r == CacheCreate(c, entry, dbOk)
    IN [ok |-> r.ok, cache |-> r.cache, raised |-> ~r.ok]

\* try: create(...) except Exception: print(...)  (lines 456-466)
TryCacheCreate(c, entry, dbOk) ==
    LET r == CacheCreate(c, entry, dbOk)
    IN [ok |-> r.ok, cache |-> r.cache, raised |-> FALSE]

\* The catalog loop comparing against the title as typed (no lower())
CuratedMatchCaseSensitive(title) ==
    LET hits == { i \in 1..Len(HARDCODED_VIDEOS) :
                    Contains(HARDCODED_VIDEOS[i].key, title) }
    IN IF hits = {} THEN None
       ELSE LET i == CHOOSE k \in hits : \A j \in hits : k <= j
            IN Some(Cand(HARDCODED_VIDEOS[i].title, HARDCODED_VIDEOS[i].url,
                         "System Fallback"))

\* The catalog loop without its break: the last matching key wins
CuratedMatchLast(title) ==
    LET hits == { i \in 1..Len(HARDCODED_VIDEOS) :
                    Contains(HARDCODED_VIDEOS[i].key, Lower(title)) }
    IN IF hits = {} THEN None
       ELSE LET i == CHOOSE k \in hits : \A j \in hits : k >= j
            IN Some(Cand(HARDCODED_VIDEOS[i].title, HARDCODED_VIDEOS[i].url,
                         "System Fallback"))

\* The curated fallback of lines 426-438: first key, in declared order, that
\* the lower-cased title contains
CuratedMatch(title) ==
    LET hits == { i \in 1..Len(HARDCODED_VIDEOS) :
                    Contains(HARDCODED_VIDEOS[i].key, Lower(title)) }
    IN IF hits = {} THEN None
       ELSE LET i == CHOOSE k \in hits : \A j \in hits : k <= j
            IN Some(Cand(HARDCODED_VIDEOS[i].title, HARDCODED_VIDEOS[i].url,
                         "System Fallback"))

\* --------------------------------------------------------------- state
VARIABLES
    cache,       \* the rows of TopicRecommendationCache, in insertion order
    now,         \* timezone.now(), in days
    apiKey,      \* whether OPENAI_API_KEY is configured
    active,      \* the workers that serve requests
    pc,          \* per worker: the position inside get_ai_video_recommendation
    req,         \* per worker: the topic (and its last log) of the call
    net,         \* per worker: what the providers answer during the call
    candidates,  \* per worker: the list `candidates`
    selection,   \* per worker: `selection` (None or a candidate with its reason)
    result,      \* per worker: the value returned (None or a recommendation)
    oracle,      \* per worker: the answer of the oracle endpoint, if one was asked
    trace,       \* per worker: the external calls of the invocation, in order
    doneAt,      \* per worker: the time at which the invocation returned
    daily,       \* the rows of DailyRecommendation
    view         \* per worker: the view it is serving and the view's locals

vars == <<cache, now, apiKey, active, daily, view, pc, req, net, candidates, selection, result,
          oracle, trace, doneAt>>

\* The state of one invocation
Local(p) == <<pc[p], req[p], net[p], candidates[p], selection[p], result[p],
              oracle[p], trace[p], doneAt[p]>>

NoResp == [kind |-> "none"]

ClockSteps == {CacheValidityDays, CacheValidityDays + 1}

NoReq == [user |-> "", title |-> <<>>, current_level |-> "beginner", last_log |-> None]

\* A worker that serves no view
NoView == [kind |-> "none", at |-> "idle", today |-> 0, topic |-> NoReq, status |-> ""]

Event(ev, n) == [ev |-> ev, n |-> n]

AdapterNames == <<"Bilibili", "Zhihu", "Sohu", "360", "DuckDuckGo">>

\* Calls in flight that have missed the cache and may still add a row
Storing == { p \in Procs : pc[p] \notin {"idle", "done", "raised"} }

Init ==
    /\ cache = <<>>
    /\ now = 0
    /\ apiKey \in BOOLEAN
    /\ active = {1}
    /\ pc = [p \in Procs |-> "idle"]
    /\ req = [p \in Procs |-> NoReq]
    /\ net = [p \in Procs |-> NoNet]
    /\ candidates = [p \in Procs |-> <<>>]
    /\ selection = [p \in Procs |-> None]
    /\ result = [p \in Procs |-> None]
    /\ trace = [p \in Procs |-> <<>>]
    /\ oracle = [p \in Procs |-> NoResp]
    /\ doneAt = [p \in Procs |-> 0]
    /\ daily = {}
    /\ view = [p \in Procs |-> NoView]

\* lines 365-386: derive the keywords, look the cache up, return on a hit
Begin(p, r) ==
    /\ pc[p] \in {"idle", "done", "raised"}
    /\ p \in active
    /\ LET kw == KeywordsOf(r)
           rows == CacheFirst(cache, kw, r.current_level, now)
       IN IF rows # {}
          THEN \E i \in rows :
                  /\ result' = [result EXCEPT ![p] =
                        Some(Rec(cache[i].video_title, cache[i].video_url, cache[i].reason))]
                  /\ trace' = [trace EXCEPT ![p] = <<Event("lookup", 1)>>]
                  /\ pc' = [pc EXCEPT ![p] = "done"]
                  /\ doneAt' = [doneAt EXCEPT ![p] = now]
                  /\ net' = [net EXCEPT ![p] = NoNet]
          ELSE /\ Len(cache) + Cardinality(Storing) < MaxCache
               /\ \E n \in Networks : net' = [net EXCEPT ![p] = n]
               /\ result' = [result EXCEPT ![p] = None]
               /\ trace' = [trace EXCEPT ![p] = <<Event("lookup", 0)>>]
               /\ pc' = [pc EXCEPT ![p] = "bilibili"]
               /\ doneAt' = [doneAt EXCEPT ![p] = 0]
    /\ req' = [req EXCEPT ![p] = r]
    /\ oracle' = [oracle EXCEPT ![p] = NoResp]
    /\ candidates' = [candidates EXCEPT ![p] = <<>>]
    /\ selection' = [selection EXCEPT ![p] = None]
    /\ UNCHANGED <<cache, now, apiKey, active, daily, view>>

\* One adapter call of the aggregator: extend the list, record the call
Extend(p, name, found, next) ==
    /\ candidates' = [candidates EXCEPT ![p] = @ \o found]
    /\ trace' = [trace EXCEPT ![p] = Append(@, Event(name, Len(found)))]
    /\ pc' = [pc EXCEPT ![p] = next]
    /\ UNCHANGED <<cache, now, apiKey, active, daily, view, req, net, selection, result,
                   oracle, doneAt>>

Skip(p, next) ==
    /\ pc' = [pc EXCEPT ![p] = next]
    /\ UNCHANGED <<cache, now, apiKey, active, daily, view, req, net, candidates, selection, result,
                   oracle, trace, doneAt>>

\* lines 391-394
SearchBilibili(p) ==
    /\ pc[p] = "bilibili"
    /\ Extend(p, "Bilibili", search_bilibili_candidates(net[p].bili, BilibiliLimit), "zhihu")

\* lines 396-400
SearchZhihu(p) ==
    /\ pc[p] = "zhihu"
    /\ IF Len(candidates[p]) < ZhihuThreshold
       THEN Extend(p, "Zhihu", search_zhihu_candidates(net[p].zhihu, ZhihuLimit), "sohu")
       ELSE Skip(p, "sohu")

\* lines 402-406
SearchSohu(p) ==
    /\ pc[p] = "sohu"
    /\ IF Len(candidates[p]) < SohuThreshold
       THEN Extend(p, "Sohu", search_sohu_candidates(net[p].sohu, SohuLimit), "so360")
       ELSE Skip(p, "so360")

\* lines 408-412
Search360(p) ==
    /\ pc[p] = "so360"
    /\ IF Len(candidates[p]) < So360Threshold
       THEN Extend(p, "360", search_360_candidates(net[p].so360, So360Limit), "ddg")
       ELSE Skip(p, "ddg")

\* lines 414-418
SearchDdg(p) ==
    /\ pc[p] = "ddg"
    /\ IF Len(candidates[p]) < DdgThreshold
       THEN Extend(p, "DuckDuckGo", search_candidates_from_ddg(net[p].ddg, DdgLimit), "fallback")
       ELSE Skip(p, "fallback")

\* lines 422-443: with no candidate, the curated catalog, and failing that the
\* blind suggestion, whose value is returned at once
Fallback(p) ==
    /\ pc[p] = "fallback"
    /\ IF candidates[p] # <<>>
       THEN Skip(p, "select")
       ELSE IF CuratedMatch(req[p].title) # None
       THEN /\ candidates' = [candidates EXCEPT ![p] = CuratedMatch(req[p].title)]
            /\ pc' = [pc EXCEPT ![p] = "select"]
            /\ UNCHANGED <<cache, now, apiKey, active, daily, view, req, net, selection, result,
                           oracle, trace, doneAt>>
       ELSE \E resp \in BlindResponses :
               LET b == call_llm_for_blind_suggestion(apiKey, resp)
               IN /\ result' = [result EXCEPT ![p] = b.result]
                  /\ trace' = [trace EXCEPT ![p] =
                        IF b.requested
                        THEN Append(@, Event("blind", IF resp.kind = "ok" THEN 1 ELSE 0))
                        ELSE @]
                  /\ pc' = [pc EXCEPT ![p] = "done"]
                  /\ doneAt' = [doneAt EXCEPT ![p] = now]
                  /\ net' = [net EXCEPT ![p] = NoNet]
                  /\ UNCHANGED <<cache, now, apiKey, active, daily, view, req, candidates, selection,
                                 oracle>>

\* lines 448-452: the rule-based choice when the oracle selected nothing
RuleBased(sel, cands) ==
    IF sel = None THEN Some([cand |-> cands[1], reason |-> RuleBasedReason]) ELSE sel

\* lines 445-452
Select(p) ==
    /\ pc[p] = "select"
    /\ \E resp \in SelectResponses :
          LET s == call_llm_to_select(apiKey, candidates[p], resp)
          IN /\ selection' = [selection EXCEPT ![p] = RuleBased(s.selection, candidates[p])]
             /\ oracle' = [oracle EXCEPT ![p] = IF s.requested THEN resp ELSE NoResp]
             /\ trace' = [trace EXCEPT ![p] =
                   IF s.requested
                   THEN Append(@, Event("select", IF resp.kind = "ok" THEN 1 ELSE 0))
                   ELSE @]
             /\ pc' = [pc EXCEPT ![p] = IF s.raised THEN "raised" ELSE "store"]
    /\ UNCHANGED <<cache, now, apiKey, active, daily, view, req, net, candidates, result, doneAt>>

\* lines 454-472: write the cache row, return the recommendation; the locals
\* of the invocation end with it
Store(p) ==
    /\ pc[p] = "store"
    /\ \E dbOk \in BOOLEAN :
          LET sel == selection[p][1]
              w == TryCacheCreate(cache,
                       Entry(KeywordsOf(req[p]), req[p].current_level, sel, now), dbOk)
          IN /\ cache' = w.cache
             /\ trace' = [trace EXCEPT ![p] = Append(@, Event("store", IF w.ok THEN 1 ELSE 0))]
             /\ doneAt' = [doneAt EXCEPT ![p] = now]
             /\ IF w.raised
                THEN /\ pc' = [pc EXCEPT ![p] = "raised"]
                     /\ UNCHANGED result
                ELSE /\ pc' = [pc EXCEPT ![p] = "done"]
                     /\ result' = [result EXCEPT ![p] =
                           Some(Rec(sel.cand.title, sel.cand.url, sel.reason))]
    /\ candidates' = [candidates EXCEPT ![p] = <<>>]
    /\ selection' = [selection EXCEPT ![p] = None]
    /\ oracle' = [oracle EXCEPT ![p] = NoResp]
    /\ net' = [net EXCEPT ![p] = NoNet]
    /\ UNCHANGED <<now, apiKey, active, daily, view, req>>

\* Time passes.  A step of the clock is a month; an invocation is bounded by
\* its request timeouts (5s per provider request, 20s for the oracle), so no
\* such step happens inside one.
Tick ==
    /\ Storing = {}
    /\ \E d \in ClockSteps : /\ now + d <= MaxClock
                             /\ now' = now + d
    /\ UNCHANGED <<cache, apiKey, active, daily, view, pc, req, net, candidates, selection, result,
                   oracle, trace, doneAt>>

Next ==
    \/ \E p \in Procs : \E r \in Requests : Begin(p, r)
    \/ \E p \in Procs : SearchBilibili(p)
    \/ \E p \in Procs : SearchZhihu(p)
    \/ \E p \in Procs : SearchSohu(p)
    \/ \E p \in Procs : Search360(p)
    \/ \E p \in Procs : SearchDdg(p)
    \/ \E p \in Procs : Fallback(p)
    \/ \E p \in Procs : Select(p)
    \/ \E p \in Procs : Store(p)
    \/ Tick

Spec == Init /\ [][Next]_vars

\* ---- several workers at once -------------------------------------------
\* Every worker serves requests (one process or thread per request)
InitConc ==
    /\ cache = <<>>
    /\ now = 0
    /\ apiKey \in BOOLEAN
    /\ active = Procs
    /\ pc = [p \in Procs |-> "idle"]
    /\ req = [p \in Procs |-> NoReq]
    /\ net = [p \in Procs |-> NoNet]
    /\ candidates = [p \in Procs |-> <<>>]
    /\ selection = [p \in Procs |-> None]
    /\ result = [p \in Procs |-> None]
    /\ trace = [p \in Procs |-> <<>>]
    /\ oracle = [p \in Procs |-> NoResp]
    /\ doneAt = [p \in Procs |-> 0]
    /\ daily = {}
    /\ view = [p \in Procs |-> NoView]

\* The clock moves on while calls are in flight, so that rows written by
\* overlapping calls carry different creation times.  One unit stands for any
\* positive amount of time; the runs stay inside one validity window.
Elapse ==
    /\ Storing # {}
    /\ now < MaxElapse
    /\ now' = now + 1
    /\ UNCHANGED <<cache, apiKey, active, daily, view, pc, req, net, candidates, selection, result,
                   oracle, trace, doneAt>>

\* The requests, provider answers and oracle answers of the concurrent runs:
\* one topic asked for by every worker, providers that return candidates, an
\* oracle that selects the first or the second candidate
ConcRequests == { r \in Requests : r.user = "alice" }
ConcNetworks == { Net(BiliDown, ZhihuSix, SohuDown, So360Down, DdgOne) }
ConcSelectResponses ==
    { OracleBody(JInt(0), ReasonGiven), OracleBody(JInt(1), ReasonMissing) }

BeginConc(p) ==
    \E r \in ConcRequests : Begin(p, r) /\ net'[p] \in ConcNetworks \cup {NoNet}

SelectConc(p) ==
    Select(p) /\ oracle'[p] \in ConcSelectResponses \cup {NoResp}

NextConc ==
    \/ \E p \in Procs : BeginConc(p)
    \/ \E p \in Procs : SearchBilibili(p)
    \/ \E p \in Procs : SearchZhihu(p)
    \/ \E p \in Procs : SearchSohu(p)
    \/ \E p \in Procs : Search360(p)
    \/ \E p \in Procs : SearchDdg(p)
    \/ \E p \in Procs : Fallback(p)
    \/ \E p \in Procs : SelectConc(p)
    \/ \E p \in Procs : Store(p)
    \/ Elapse

SpecConc == InitConc /\ [][NextConc]_vars

\* ---- the views (core/views.py) ------------------------------------------
\* The logged-in user and the one topic they have
ViewUser == "bob"
ViewTopics == { r \in Requests : r.user = ViewUser /\ r.title = TitleJavaPython }
ViewNetworks == { NoNet }
ViewKinds == {"daily_pick", "generate_recommendation_api"}

\* DailyRecommendation.objects.filter(user=..., date=...)
RowsOf(d, user, date) == { x \in d : x.user = user /\ x.date = date }

\* The row both views create; ai_rec is None or a recommendation
DailyRow(user, date, topic, ai_rec) ==
    [user |-> user, date |-> date, topic |-> topic.title, rec |-> ai_rec]

\* DailyRecommendation.objects.create under unique_together (user, date):
\* ok is FALSE for an IntegrityError
DailyCreate(d, row) ==
    IF RowsOf(d, row.user, row.date) # {}
    THEN [ok |-> FALSE, daily |-> d]
    ELSE [ok |-> TRUE, daily |-> d \cup {row}]

InitViews ==
    /\ cache = <<>>
    /\ now = 0
    /\ apiKey \in BOOLEAN
    /\ active = Procs
    /\ pc = [p \in Procs |-> "idle"]
    /\ req = [p \in Procs |-> NoReq]
    /\ net = [p \in Procs |-> NoNet]
    /\ candidates = [p \in Procs |-> <<>>]
    /\ selection = [p \in Procs |-> None]
    /\ result = [p \in Procs |-> None]
    /\ trace = [p \in Procs |-> <<>>]
    /\ oracle = [p \in Procs |-> NoResp]
    /\ doneAt = [p \in Procs |-> 0]
    /\ daily = {}
    /\ view = [p \in Procs |-> NoView]

\* The frame of a new call of get_ai_video_recommendation by worker p
FreshCall(p) ==
    /\ pc' = [pc EXCEPT ![p] = "idle"]
    /\ req' = [req EXCEPT ![p] = NoReq]
    /\ result' = [result EXCEPT ![p] = None]
    /\ trace' = [trace EXCEPT ![p] = <<>>]
    /\ doneAt' = [doneAt EXCEPT ![p] = 0]
    /\ UNCHANGED <<cache, now, apiKey, active, net, candidates, selection, oracle>>

\* views.py lines 90-102 and 154-165: today's row is looked for; with a row
\* the view answers at once, without one it picks a topic at random
ViewBegin(p, kind) ==
    /\ p \in active
    /\ view[p].at \in {"idle", "done", "failed"}
    /\ pc[p] \in {"idle", "done"}
    /\ IF RowsOf(daily, ViewUser, now) # {}
       THEN view' = [view EXCEPT ![p] =
                [kind |-> kind, at |-> "done", today |-> now, topic |-> NoReq,
                 status |-> IF kind = "daily_pick" THEN "shown" ELSE "exists"]]
       ELSE \E r \in ViewTopics :
               view' = [view EXCEPT ![p] =
                   [kind |-> kind, at |-> "calling", today |-> now, topic |-> r,
                    status |-> ""]]
    /\ FreshCall(p)
    /\ UNCHANGED daily

\* views.py lines 105 and 168: the call of get_ai_video_recommendation begins
ViewCall(p) ==
    /\ view[p].at = "calling"
    /\ pc[p] = "idle"
    /\ Begin(p, view[p].topic)
    /\ net'[p] \in ViewNetworks

\* views.py lines 107-119 and 170-182: the row is created; on IntegrityError
\* generate_recommendation_api answers 'exists', daily_pick goes on to fetch
\* the row again
ViewCreate(p) ==
    /\ view[p].at = "calling"
    /\ pc[p] = "done"
    /\ LET w == DailyCreate(daily, DailyRow(ViewUser, now, view[p].topic, result[p]))
       IN /\ daily' = w.daily
          /\ view' = [view EXCEPT ![p] =
                [@ EXCEPT
                   !.at = IF ~w.ok /\ view[p].kind = "daily_pick" THEN "refetch" ELSE "done",
                   !.status =
                      IF w.ok
                      THEN (IF view[p].kind = "daily_pick" THEN "shown" ELSE "created")
                      ELSE (IF view[p].kind = "daily_pick" THEN "" ELSE "exists")]]
    /\ FreshCall(p)

\* views.py lines 180-182: filter(...).first() and recommendation.topic, which
\* raises AttributeError when first() gives None
ViewRefetch(p) ==
    /\ view[p].at = "refetch"
    /\ view' = [view EXCEPT ![p] =
          IF RowsOf(daily, ViewUser, view[p].today) = {}
          THEN [@ EXCEPT !.at = "failed", !.status = "AttributeError"]
          ELSE [@ EXCEPT !.at = "done", !.status = "refetched"]]
    /\ UNCHANGED <<cache, now, apiKey, active, daily, pc, req, net, candidates, selection,
                   result, oracle, trace, doneAt>>

\* views.py lines 220-227
refresh_recommendation ==
    /\ RowsOf(daily, ViewUser, now) # {}
    /\ daily' = daily \ RowsOf(daily, ViewUser, now)
    /\ UNCHANGED <<cache, now, apiKey, active, view, pc, req, net, candidates, selection,
                   result, oracle, trace, doneAt>>

NextViews ==
    \/ \E p \in Procs : \E kind \in ViewKinds : ViewBegin(p, kind)
    \/ \E p \in Procs : ViewCall(p)
    \/ \E p \in Procs : SearchBilibili(p)
    \/ \E p \in Procs : SearchZhihu(p)
    \/ \E p \in Procs : SearchSohu(p)
    \/ \E p \in Procs : Search360(p)
    \/ \E p \in Procs : SearchDdg(p)
    \/ \E p \in Procs : Fallback(p)
    \/ \E p \in Procs : SelectConc(p)
    \/ \E p \in Procs : Store(p)
    \/ \E p \in Procs : ViewCreate(p)
    \/ \E p \in Procs : ViewRefetch(p)
    \/ refresh_recommendation

SpecViews == InitViews /\ [][NextViews]_vars

\* ---- the lookup alone ---------------------------------------------------
\* A feedback that shares its first 10 characters with FeedbackLong
FeedbackLongOther == <<"t","o","o"," ","f","a","s","t"," ","4","x","y">>
\* A feedback that differs from FeedbackLong inside the first 10 characters
FeedbackShort == <<"t","o","o"," ","f","a","s","t">>

\* Requests that differ in user, in having a log, and in the feedback before
\* and after its 10th character
KeyRequests ==
    Requests \cup
    { [user |-> "alice", title |-> TitleJavaPython, current_level |-> "beginner",
       last_log |-> Some([feedback |-> FeedbackLongOther])],
      [user |-> "bob", title |-> TitleJavaPython, current_level |-> "beginner",
       last_log |-> Some([feedback |-> FeedbackShort])] }

\* Rows that earlier calls of these requests have stored: the first candidate
\* by rule at time 0, an oracle's choice at time 1
KeyRows ==
    { Entry(KeywordsOf(r), r.current_level,
            [cand |-> Cand("Zhihu video", Url("https", "www.zhihu.com/zvideo/101"), "Zhihu"),
             reason |-> RuleBasedReason], 0) : r \in KeyRequests }
    \cup
    { Entry(KeywordsOf(r), r.current_level,
            [cand |-> Cand("Answer A", Url("https", "www.zhihu.com/question/77/answer/103"),
                           "Zhihu"),
             reason |-> DefaultReason], 1) : r \in KeyRequests }

\* Any table of at most MaxCache such rows, looked up at once or a month later
InitKey ==
    /\ cache \in UNION { [1..n -> KeyRows] : n \in 0..MaxCache }
    /\ now \in {1, 1 + CacheValidityDays}
    /\ apiKey = TRUE
    /\ active = Procs
    /\ pc = [p \in Procs |-> "idle"]
    /\ req = [p \in Procs |-> NoReq]
    /\ net = [p \in Procs |-> NoNet]
    /\ candidates = [p \in Procs |-> <<>>]
    /\ selection = [p \in Procs |-> None]
    /\ result = [p \in Procs |-> None]
    /\ trace = [p \in Procs |-> <<>>]
    /\ oracle = [p \in Procs |-> NoResp]
    /\ doneAt = [p \in Procs |-> 0]
    /\ daily = {}
    /\ view = [p \in Procs |-> NoView]

\* lines 365-386 of one call; what follows a miss is left out
Lookup(p) ==
    \E r \in KeyRequests : Begin(p, r) /\ net'[p] = NoNet

NextKey == \E p \in Procs : Lookup(p)

SpecKey == InitKey /\ [][NextKey]_vars

\* --------------------------------------------------------------- properties
Returned(p) == pc[p] = "done"

Hit(p) == trace[p] # <<>> /\ trace[p][1] = Event("lookup", 1)
Missed(p) == trace[p] # <<>> /\ trace[p][1] = Event("lookup", 0)

IsAdapter(e) == \E k \in 1..Len(AdapterNames) : AdapterNames[k] = e.ev

\* Position of an adapter in the priority order
Priority(name) == CHOOSE k \in 1..Len(AdapterNames) : AdapterNames[k] = name

Has(p, ev) == \E i \in 1..Len(trace[p]) : trace[p][i].ev = ev

RECURSIVE Found(_)
\* Number of candidates the adapter calls of a trace have returned
Found(t) ==
    IF t = <<>> THEN 0
    ELSE (IF IsAdapter(Head(t)) THEN Head(t).n ELSE 0) + Found(Tail(t))

Complete(rec) ==
    /\ rec.title \notin {"", PyNone}
    /\ IsAbsoluteUrl(rec.url)
    /\ rec.reason \notin {"", PyNone}

\* A call of p begins in this step
BeginStep(p) == pc[p] \in {"idle", "done", "raised"} /\ Local(p)' # Local(p)

SameKey(r1, r2) ==
    KeywordsOf(r1) = KeywordsOf(r2) /\ r1.current_level = r2.current_level

\* C1: whatever the adapters, the oracle and the cache do, a returned value is
\* either None or a recommendation with a non-empty title, a well-formed
\* absolute url and a rationale.
C1_CompleteOrAbsent ==
    \A p \in Procs : Returned(p) => result[p] = None \/ Complete(result[p][1])

\* C2: when a call that returned a recommendation is followed, within the
\* validity window, by a call of the same keywords and level, the second call
\* is a cache hit that contacts no adapter and no oracle and returns the same
\* title, url and rationale.
C2_CacheIdempotence ==
    [][\A p \in Procs :
          ( /\ Returned(p)
            /\ result[p] # None
            /\ BeginStep(p)
            /\ SameKey(req'[p], req[p])
            /\ now' - doneAt[p] <= CacheValidityDays )
          => ( /\ pc'[p] = "done"
               /\ trace'[p] = <<Event("lookup", 1)>>
               /\ result'[p] = result[p] )]_vars

\* C3: the cache lookup precedes every adapter call, and every call that
\* misses the cache and returns a recommendation has attempted a cache store,
\* whichever branch produced the recommendation.
C3_ReadThrough ==
    \A p \in Procs :
        /\ (\E i \in 1..Len(trace[p]) : IsAdapter(trace[p][i])) => trace[p][1].ev = "lookup"
        /\ (Returned(p) /\ Missed(p) /\ result[p] # None) => Has(p, "store")

RecOfEntry(e) == Rec(e.video_title, e.video_url, e.reason)

KeyedAs(e, r) == e.topic_keyword = KeywordsOf(r) /\ e.level = r.current_level

\* C4: a call returns a cache row only if the row is at most 30 days old at
\* the lookup; when every row of the call's keywords and level is older, the
\* call misses and goes on to the adapters; the lookup removes no row.
C4_CacheExpiry ==
    [][\A p \in Procs :
          BeginStep(p) =>
            /\ Hit(p)' =>
                  \E i \in 1..Len(cache) :
                      /\ KeyedAs(cache[i], req'[p])
                      /\ now - cache[i].created_at <= 30
                      /\ result'[p] = Some(RecOfEntry(cache[i]))
            /\ (\A i \in 1..Len(cache) :
                    KeyedAs(cache[i], req'[p]) => now - cache[i].created_at > 30)
                  => (Missed(p)' /\ pc'[p] = "bilibili")
            /\ cache' = cache]_vars

\* An expired row of the call's key is still in the table after the call has
\* missed, run the adapters and returned
C4_Witness ==
    \E p \in Procs :
        /\ Returned(p) /\ Missed(p) /\ Has(p, "Bilibili") /\ result[p] # None
        /\ \E i \in 1..Len(cache) :
              KeyedAs(cache[i], req[p]) /\ doneAt[p] - cache[i].created_at > 30

NoCuratedKey(title) ==
    \A i \in 1..Len(HARDCODED_VIDEOS) : ~Contains(HARDCODED_VIDEOS[i].key, Lower(title))

TotalFailure(p) ==
    /\ Missed(p)
    /\ \A k \in 1..Len(AdapterNames) : Has(p, AdapterNames[k])
    /\ Found(trace[p]) = 0
    /\ NoCuratedKey(req[p].title)
    /\ (~apiKey \/ \E i \in 1..Len(trace[p]) : trace[p][i] = Event("blind", 0))

\* C5: a call returns None exactly when every adapter returned nothing, no
\* catalog key occurs in the title and the blind oracle call was not made (no
\* credential) or failed; with one candidate or more it returns a
\* recommendation.
C5_AbsenceOnlyOnTotalFailure ==
    \A p \in Procs :
        Returned(p) =>
            /\ result[p] = None <=> TotalFailure(p)
            /\ Found(trace[p]) > 0 => result[p] # None

\* Total failure with a credential: the blind request was made and failed
C5_Witness ==
    \E p \in Procs : Returned(p) /\ result[p] = None /\ Has(p, "blind")

InvalidSelect(resp, n) ==
    \/ resp.kind # "ok"
    \/ resp.selected_id.t # "int"
    \/ resp.selected_id.v < 0
    \/ resp.selected_id.v >= n

\* C6: when the oracle answers with a status other than 200, with malformed
\* JSON, or with a selected_id that is missing, not an integer, negative or
\* not below the number of candidates, nothing is raised and the selection is
\* the rule-based one (first candidate, fixed rationale).
C6_OracleBoundary ==
    \A p \in Procs :
        ( /\ pc[p] \in {"store", "raised"}
          /\ oracle[p] # NoResp
          /\ InvalidSelect(oracle[p], Len(candidates[p])) )
        => ( /\ pc[p] = "store"
             /\ selection[p] = Some([cand |-> candidates[p][1],
                                     reason |-> RuleBasedReason]) )

FirstCuratedIndex(title) ==
    CHOOSE i \in 1..Len(HARDCODED_VIDEOS) :
        /\ Contains(HARDCODED_VIDEOS[i].key, Lower(title))
        /\ \A j \in 1..(i - 1) : ~Contains(HARDCODED_VIDEOS[j].key, Lower(title))

\* C7: when the adapters return nothing and the lower-cased title contains a
\* catalog key, the call returns the title and url of the first such entry in
\* the catalog's order and makes no blind oracle request.
C7_CuratedBeforeBlind ==
    \A p \in Procs :
        ( /\ Returned(p) /\ Missed(p)
          /\ Found(trace[p]) = 0
          /\ ~NoCuratedKey(req[p].title) )
        => ( /\ result[p] # None
             /\ result[p][1].title = HARDCODED_VIDEOS[FirstCuratedIndex(req[p].title)].title
             /\ result[p][1].url = HARDCODED_VIDEOS[FirstCuratedIndex(req[p].title)].url
             /\ ~Has(p, "blind") )

\* A title that contains two keys ("Java...Python") got the entry of the key
\* declared first ("python")
C7_Witness ==
    \E p \in Procs :
        /\ Returned(p) /\ Missed(p) /\ Found(trace[p]) = 0
        /\ req[p].title = TitleJavaPython
        /\ result[p] # None
        /\ result[p][1].title = HARDCODED_VIDEOS[1].title

AdapterCalls(p) == { i \in 1..Len(trace[p]) : IsAdapter(trace[p][i]) }

\* C8: after a miss Bilibili is called first; adapters are called in priority
\* order; an adapter below Bilibili is called only while fewer than 5
\* candidates have been collected; when Bilibili returns 5, it is the only
\* adapter called.
C8_ShortCircuit ==
    \A p \in Procs :
        /\ (Missed(p) /\ pc[p] # "bilibili") => trace[p][2].ev = "Bilibili"
        /\ \A i, j \in AdapterCalls(p) :
              i < j => Priority(trace[p][i].ev) < Priority(trace[p][j].ev)
        /\ \A i \in AdapterCalls(p) :
              i > 2 => Found(SubSeq(trace[p], 1, i - 1)) < 5
        /\ (Returned(p) /\ Has(p, "Bilibili") /\ trace[p][2].n = 5)
              => AdapterCalls(p) = {2}

\* Bilibili returned 5 and no other adapter was called
C8_Witness ==
    \E p \in Procs :
        /\ Returned(p) /\ Missed(p)
        /\ trace[p][2] = Event("Bilibili", 5)
        /\ AdapterCalls(p) = {2}

\* C9: when the cache write fails, the call still returns, and returns the
\* title, url and rationale of the selection it computed.
C9_StoreFailureNonFatal ==
    [][\A p \in Procs :
          ( /\ pc[p] = "store"
            /\ trace'[p] = Append(trace[p], Event("store", 0)) )
          => ( /\ pc'[p] = "done"
               /\ result'[p] = Some(Rec(selection[p][1].cand.title,
                                        selection[p][1].cand.url,
                                        selection[p][1].reason)) )]_vars

\* A call has returned a recommendation after a failed cache write
C9_Witness ==
    \E p \in Procs :
        /\ Returned(p) /\ result[p] # None
        /\ \E i \in 1..Len(trace[p]) : trace[p][i] = Event("store", 0)

\* C10: a step never removes or changes a row; it adds at most one row, only
\* as the store of a call that missed the cache and returns a recommendation,
\* and the row carries what that call returns; a call adds no second row.
C10_AppendOnly ==
    [][/\ Len(cache') >= Len(cache)
       /\ SubSeq(cache', 1, Len(cache)) = cache
       /\ cache' # cache =>
            /\ Len(cache') = Len(cache) + 1
            /\ \E p \in Procs :
                  /\ pc[p] = "store" /\ pc'[p] = "done"
                  /\ Missed(p)
                  /\ ~Has(p, "store")
                  /\ result'[p] # None
                  /\ RecOfEntry(cache'[Len(cache')]) = result'[p][1]
                  /\ KeyedAs(cache'[Len(cache')], req[p])]_vars

\* A second row was added while the first is still there
C10_Witness ==
    /\ Len(cache) = 2
    /\ \E p \in Procs : Returned(p) /\ trace[p][Len(trace[p])] = Event("store", 1)

\* Rows of the keywords and level of request r that are inside the window at t
InWindow(c, r, t) ==
    { i \in 1..Len(c) : KeyedAs(c[i], r) /\ t - c[i].created_at <= CacheValidityDays }

\* C11: with several calls of the same keywords and level in flight at once,
\* every call that reaches the store returns its own selection, every
\* successful store appends one row of its own and touches no other row, and
\* every lookup that finds rows inside the window returns one of the latest
\* creation time.
C11_ConcurrentWriters ==
    [][/\ \A p \in Procs :
            (pc[p] = "store" /\ Local(p)' # Local(p)) =>
                /\ pc'[p] = "done"
                /\ result'[p] = Some(Rec(selection[p][1].cand.title,
                                         selection[p][1].cand.url,
                                         selection[p][1].reason))
                /\ trace'[p][Len(trace'[p])] = Event("store", 1) =>
                      /\ cache' = Append(cache, Entry(KeywordsOf(req[p]),
                                                      req[p].current_level,
                                                      selection[p][1], now))
                /\ trace'[p][Len(trace'[p])] = Event("store", 0) => cache' = cache
       /\ cache' # cache => \E p \in Procs : pc[p] = "store" /\ pc'[p] = "done"
       /\ \A p \in Procs :
            BeginStep(p) =>
                LET m == InWindow(cache, req'[p], now)
                IN IF m = {} THEN Missed(p)'
                   ELSE /\ Hit(p)'
                        /\ \E i \in m :
                              /\ \A j \in m : cache[j].created_at <= cache[i].created_at
                              /\ result'[p] = Some(RecOfEntry(cache[i]))]_vars

\* Two overlapping calls of one key have left two different rows of different
\* creation times, and a later lookup has returned the later one
C11_Witness ==
    \E p \in Procs :
        /\ Returned(p) /\ Hit(p)
        /\ \E i, j \in 1..Len(cache) :
              /\ KeyedAs(cache[i], req[p]) /\ KeyedAs(cache[j], req[p])
              /\ cache[i].created_at < cache[j].created_at
              /\ RecOfEntry(cache[i]) # RecOfEntry(cache[j])
              /\ result[p] = Some(RecOfEntry(cache[j]))

\* feedback[:10] of the last log, empty without a log or without feedback
FeedbackPrefixOf(r) ==
    IF r.last_log = None THEN <<>> ELSE Prefix(r.last_log[1].feedback, 10)

Agree(r1, r2) ==
    /\ r1.title = r2.title
    /\ r1.current_level = r2.current_level
    /\ FeedbackPrefixOf(r1) = FeedbackPrefixOf(r2)

\* C12: two lookups against the same table whose requests agree on title,
\* level and the first 10 characters of the last feedback both hit or both
\* miss, and a hit of one returns a row the other can return, whatever their
\* users and the rest of their feedback.
C12_KeyDeterminism ==
    \A p, q \in Procs :
        (trace[p] # <<>> /\ trace[q] # <<>> /\ Agree(req[p], req[q])) =>
            /\ Hit(p) <=> Hit(q)
            /\ Hit(p) =>
                  \E i \in CacheFirst(cache, KeywordsOf(req[q]), req[q].current_level, now) :
                      result[p] = Some(RecOfEntry(cache[i]))

\* Two lookups of different users, whose feedbacks differ after the 10th
\* character, have hit the same row
C12_Witness ==
    \E p, q \in Procs :
        /\ Hit(p) /\ Hit(q)
        /\ req[p].user # req[q].user
        /\ req[p].last_log # None /\ req[q].last_log # None
        /\ req[p].last_log[1].feedback # req[q].last_log[1].feedback
        /\ Agree(req[p], req[q])
        /\ result[p] = result[q]

\* What each adapter returns under the provider answers n, in priority order
AdapterResults(n) ==
    << search_bilibili_candidates(n.bili, 5),
       search_zhihu_candidates(n.zhihu, 3),
       search_sohu_candidates(n.sohu, 3),
       search_360_candidates(n.so360, 3),
       search_candidates_from_ddg(n.ddg, 3) >>

\* The first hit of the highest-priority adapter that returned anything
FirstHit(n) ==
    LET r == AdapterResults(n)
        k == CHOOSE k \in 1..Len(r) : r[k] # <<>> /\ \A j \in 1..(k - 1) : r[j] = <<>>
    IN r[k][1]

AnyHit(n) == \E k \in 1..Len(AdapterResults(n)) : AdapterResults(n)[k] # <<>>

\* C13: when the candidate list is not empty and the oracle gives no selection
\* (no credential, a failed call, or an invalid answer), the selection is the
\* first candidate of the list with the fixed popularity rationale, and, when
\* an adapter returned anything, that candidate is the first hit of the
\* highest-priority such adapter.
C13_RuleBasedDegradation ==
    \A p \in Procs :
        ( /\ pc[p] = "store"
          /\ candidates[p] # <<>>
          /\ (oracle[p] = NoResp \/ InvalidSelect(oracle[p], Len(candidates[p]))) )
        => ( /\ selection[p] = Some([cand |-> candidates[p][1],
                                     reason |-> RuleBasedReason])
             /\ AnyHit(net[p]) => candidates[p][1] = FirstHit(net[p]) )

\* The API part of the Bilibili adapter ends in an exception
BiliApiRaises(b) ==
    \/ b.api.kind = "exception"
    \/ /\ b.api.kind = "ok" /\ b.api.code = 0
       /\ \E i \in 1..Len(Take(b.api.videos, 5)) :
             b.api.videos[i].bvid # "" /\ b.api.videos[i].descNull

\* A network, status or parse failure inside the named adapter
AdapterFailed(name, n) ==
    CASE name = "Bilibili"   -> BiliApiRaises(n.bili) /\ n.bili.web.kind # "ok"
      [] name = "Zhihu"      -> n.zhihu.kind # "ok"
                                \/ \E i \in 1..Len(n.zhihu.items) : n.zhihu.items[i].raises
      [] name = "Sohu"       -> n.sohu.kind # "ok"
      [] name = "360"        -> n.so360.kind # "ok"
      [] name = "DuckDuckGo" -> n.ddg.kind # "ok"

\* C14: a failure inside an adapter never leaves the adapter; the failed
\* adapter contributes no candidate, not even those it had collected before
\* the failure, and the next adapter in priority order is called as after an
\* adapter that found nothing.
C14_AdapterIsolation ==
    \A p \in Procs :
        /\ pc[p] # "raised"
        /\ pc[p] \in {"zhihu", "sohu", "so360", "ddg", "fallback", "select", "store"} =>
              \A i \in AdapterCalls(p) :
                  AdapterFailed(trace[p][i].ev, net[p]) =>
                      /\ trace[p][i].n = 0
                      /\ Found(SubSeq(trace[p], 1, i)) = Found(SubSeq(trace[p], 1, i - 1))
        /\ (pc[p] = "fallback" /\ Found(trace[p]) = 0) =>
              \A k \in 1..Len(AdapterNames) : Has(p, AdapterNames[k])

\* Number of DuckDuckGo results that carry a link ('content')
DdgIdentified(d) ==
    IF d.kind = "ok"
    THEN Cardinality({ k \in 1..Len(d.results) : d.results[k].content # None })
    ELSE 0

\* C15: every candidate of the merged list has a non-empty title and a
\* non-empty url, and a provider item without an identifier (a DuckDuckGo
\* result without a link) is dropped, not emitted.
C15_CandidateInvariant ==
    \A p \in Procs :
        /\ \A i \in 1..Len(candidates[p]) :
              /\ candidates[p][i].title # ""
              /\ candidates[p][i].url.rest # ""
        /\ pc[p] \in {"fallback", "select", "store"} =>
              \A i \in AdapterCalls(p) :
                  trace[p][i].ev = "DuckDuckGo" => trace[p][i].n <= DdgIdentified(net[p].ddg)

\* Number of events of the trace t whose name is in the set evs
RECURSIVE CountEv(_, _)
CountEv(t, evs) ==
    IF t = <<>> THEN 0
    ELSE (IF Head(t).ev \in evs THEN 1 ELSE 0) + CountEv(Tail(t), evs)

\* C16: one call issues at most one oracle request, a selection request or a
\* blind-suggestion request and never both or the same twice; it calls each
\* adapter at most once; without a credential it issues no oracle request.
C16_NoRetry ==
    \A p \in Procs :
        /\ CountEv(trace[p], {"select", "blind"}) <= 1
        /\ \A k \in 1..Len(AdapterNames) : CountEv(trace[p], {AdapterNames[k]}) <= 1
        /\ ~apiKey => CountEv(trace[p], {"select", "blind"}) = 0

\* A call whose one selection request failed has returned the rule-based
\* choice after calling all five adapters once
C16_Witness ==
    \E p \in Procs :
        /\ Returned(p) /\ result[p] # None
        /\ result[p][1].reason = RuleBasedReason
        /\ \E i \in 1..Len(trace[p]) : trace[p][i] = Event("select", 0)
        /\ CountEv(trace[p], {"select", "blind"}) = 1
        /\ \A k \in 1..Len(AdapterNames) : CountEv(trace[p], {AdapterNames[k]}) = 1

\* C17: whatever the interleaving of daily_pick, generate_recommendation_api
\* and refresh_recommendation of one user on one date, there is at most one
\* DailyRecommendation row of that user and date, and no view fails: a view
\* whose create met the existing row ends by using that row.
C17_DailyUniqueness ==
    /\ \A x, y \in daily : (x.user = y.user /\ x.date = y.date) => x = y
    /\ \A p \in Procs : view[p].at # "failed"

====
